---- MODULE Spec2Model ----
(***************************************************************************)
(* The ledger of AppOscar: the Store class over localStorage and the App   *)
(* handlers that write to it (index.tsx, kept here as src/unnamed/part_000).*)
(*                                                                         *)
(* A record keeps the fields the handlers compute with: id, clientId,      *)
(* creditorId, amount, price, quantity.  name, phone, description,         *)
(* category and date are strings the handlers copy from the form to the    *)
(* record and never read back; they are left out.  Amounts are whole       *)
(* numbers, where the double arithmetic of the source is exact.            *)
(***************************************************************************)
EXTENDS Integers, Sequences, FiniteSets, TLC

VARIABLES
    storage,            \* localStorage: key -> the parsed array stored under that key
    currentPage,        \* App.currentPage
    currentClientId,    \* App.currentClientId   (NoId is null)
    currentCreditorId,  \* App.currentCreditorId (NoId is null)
    last,               \* the handler that ran last: [op, n], n a detail of its input
    scope,              \* the part of the store this run fills (a bound, never written)
    modal,              \* the form #modal-container shows, when it is kept open
    tabs,               \* the handler each open tab is in, between two localStorage accesses
    caches,             \* CacheStorage: the caches in creation order, [name, urls]
    worker              \* the service worker of sw.js: its phase and the events under way

vars == <<storage, currentPage, currentClientId, currentCreditorId, last, scope,
          modal, tabs, caches, worker>>

----------------------------------------------------------------------------
(* Bounds of the model *)

MaxId == 2          \* generateId() draws from 1..MaxId
MaxParents == 2     \* clients, in the run that fills the client ledger
MaxChildren == 2    \* transactions of the client ledger; creditor transactions
MaxSingles == 1     \* records of each other collection a run fills
MaxRecords == 3     \* records in the whole store, in the sales and creditor runs
MaxAmt == 1         \* an amount typed into a form is in -MaxAmt..MaxAmt
MaxPrice == 1       \* a price typed into the product form is in 0..MaxPrice
MaxStock == 2       \* a product's quantity stays in 0..MaxStock
MaxSaleQty == 2     \* the quantity field of the sale form is in 1..MaxSaleQty

----------------------------------------------------------------------------
(* Values *)

\* An id that is unset: undefined, null or '' (all falsy in `if (item.id)`).
NoId == 0
\* parseFloat('') and parseInt(''): the number NaN.
NaN == 0 - 1000
\* JSON.stringify writes NaN as null.
Null == 0 - 2000

Ids == 1..MaxId
Amounts == (0 - MaxAmt)..MaxAmt
Prices == 0..MaxPrice
Stocks == 0..MaxStock

EntityType == {"clients", "transactions", "sales", "expenses", "products",
               "creditors", "creditorTransactions"}
Pages == {"clients", "sales", "expenses", "inventory", "creditors", "help"}

Client(id) == [id |-> id]
Transaction(id, clientId, amount) == [id |-> id, clientId |-> clientId, amount |-> amount]
Sale(id, amount) == [id |-> id, amount |-> amount]
Expense(id, amount, creditorId) == [id |-> id, amount |-> amount, creditorId |-> creditorId]
Product(id, price, quantity) == [id |-> id, price |-> price, quantity |-> quantity]
Creditor(id) == [id |-> id]
CreditorTransaction(id, creditorId, amount) ==
    [id |-> id, creditorId |-> creditorId, amount |-> amount]

----------------------------------------------------------------------------
(* Arrays.  Array.prototype.filter is SelectSeq. *)

\* Array.prototype.findIndex on ids, 1-based; 0 where the source has -1.
findIndex(items, id) ==
    IF \E i \in 1..Len(items) : items[i].id = id
    THEN CHOOSE i \in 1..Len(items) :
            /\ items[i].id = id
            /\ \A j \in 1..(i - 1) : items[j].id # id
    ELSE 0

\* Array.prototype.find on ids: <<record>>, or <<>> where the source has undefined.
find(items, id) ==
    IF findIndex(items, id) = 0 THEN <<>> ELSE <<items[findIndex(items, id)]>>

----------------------------------------------------------------------------
(* JSON and number coercion *)

\* JSON.stringify of a number field followed by JSON.parse: NaN comes back null.
JsonNumber(x) == IF x = NaN THEN Null ELSE x

\* JSON.parse(JSON.stringify(item)).
JsonItem(item) ==
    [f \in DOMAIN item |-> IF f = "amount" THEN JsonNumber(item[f]) ELSE item[f]]

\* sum + t.amount: null converts to 0, NaN makes the sum NaN.
JsAdd(sum, x) ==
    IF sum = NaN \/ x = NaN THEN NaN
    ELSE IF x = Null THEN sum
    ELSE sum + x

\* Math.abs(x).
JsAbs(x) == IF x = NaN THEN NaN ELSE IF x < 0 THEN 0 - x ELSE x

\* -x.
JsNeg(x) == IF x = NaN THEN NaN ELSE 0 - x

----------------------------------------------------------------------------
(* class Store *)

\* Store.get: the parsed array under the key, [] when localStorage has no such
\* key.  (Under the seven entity keys a missing item and "[]" are read alike,
\* and s holds <<>> for both; any other key is in DOMAIN s once it is written.)
get(s, type) == IF type \in DOMAIN s THEN s[type] ELSE <<>>

\* Store.set: localStorage.setItem creates the key when it is not there.
set(s, type, data) ==
    LET json == [i \in 1..Len(data) |-> JsonItem(data[i])] IN
    IF type \in DOMAIN s
    THEN [s EXCEPT ![type] = json]
    ELSE [key \in DOMAIN s \cup {type} |-> IF key = type THEN json ELSE s[key]]

\* Store.save that pushes the item in the update branch too.
saveAlwaysPush(s, type, item, newId) ==
    LET items == get(s, type) IN
    IF item.id # NoId
    THEN set(s, type, Append(items, item))
    ELSE set(s, type, Append(items, [item EXCEPT !.id = newId]))

\* Store.save, with newId the value generateId() returns if it is called.
save(s, type, item, newId) ==
    LET items == get(s, type) IN
    IF item.id # NoId
    THEN LET index == findIndex(items, item.id) IN
         IF index > 0
         THEN set(s, type, [items EXCEPT ![index] = item])
         ELSE set(s, type, items)
    ELSE set(s, type, Append(items, [item EXCEPT !.id = newId]))

\* What Store.save returns: the item it was given, with the generated id when
\* it had none.
saveReturns(item, newId) ==
    IF item.id # NoId THEN item ELSE [item EXCEPT !.id = newId]

\* Store.delete that, with a sale, a transaction or a creditor transaction,
\* removes the products that are out of stock too.
deleteRestocks(s, type, id) ==
    LET NotId(item) == item.id # id
        NotClient(t) == t.clientId # id
        NotCreditor(t) == t.creditorId # id
        InStock(p) == p.quantity > 0
        s0 == IF type \in {"sales", "transactions", "creditorTransactions"}
              THEN set(s, "products", SelectSeq(get(s, "products"), InStock))
              ELSE s
        s1 == set(s0, type, SelectSeq(get(s0, type), NotId))
        s2 == IF type = "clients"
              THEN set(s1, "transactions", SelectSeq(get(s1, "transactions"), NotClient))
              ELSE s1
    IN  IF type = "creditors"
        THEN set(s2, "creditorTransactions",
                 SelectSeq(get(s2, "creditorTransactions"), NotCreditor))
        ELSE s2

\* Store.delete that removes the expenses paid to a deleted creditor too.
deleteWithExpenses(s, type, id) ==
    LET NotId(item) == item.id # id
        NotClient(t) == t.clientId # id
        NotCreditor(t) == t.creditorId # id
        s1 == set(s, type, SelectSeq(get(s, type), NotId))
        s2 == IF type = "clients"
              THEN set(s1, "transactions", SelectSeq(get(s1, "transactions"), NotClient))
              ELSE s1
    IN  IF type = "creditors"
        THEN set(set(s2, "creditorTransactions",
                     SelectSeq(get(s2, "creditorTransactions"), NotCreditor)),
                 "expenses", SelectSeq(get(s2, "expenses"), NotCreditor))
        ELSE s2

\* Store.delete without the cascade to the children.
deleteNoCascade(s, type, id) ==
    LET NotId(item) == item.id # id
    IN  set(s, type, SelectSeq(get(s, type), NotId))

\* Store.delete.
delete(s, type, id) ==
    LET NotId(item) == item.id # id
        NotClient(t) == t.clientId # id
        NotCreditor(t) == t.creditorId # id
        s1 == set(s, type, SelectSeq(get(s, type), NotId))
        s2 == IF type = "clients"
              THEN set(s1, "transactions", SelectSeq(get(s1, "transactions"), NotClient))
              ELSE s1
    IN  IF type = "creditors"
        THEN set(s2, "creditorTransactions",
                 SelectSeq(get(s2, "creditorTransactions"), NotCreditor))
        ELSE s2

getClients(s) == get(s, "clients")
getClient(s, id) == find(get(s, "clients"), id)
getSales(s) == get(s, "sales")
getSale(s, id) == find(get(s, "sales"), id)
getExpenses(s) == get(s, "expenses")
getExpense(s, id) == find(get(s, "expenses"), id)
getTransactionsForClient(s, clientId) ==
    LET OfClient(t) == t.clientId = clientId
    IN  SelectSeq(get(s, "transactions"), OfClient)
getTransaction(s, id) == find(get(s, "transactions"), id)
getProducts(s) == get(s, "products")
getProduct(s, id) == find(get(s, "products"), id)
getCreditors(s) == get(s, "creditors")
getCreditor(s, id) == find(get(s, "creditors"), id)
getTransactionsForCreditor(s, creditorId) ==
    LET OfCreditor(t) == t.creditorId = creditorId
    IN  SelectSeq(get(s, "creditorTransactions"), OfCreditor)
getCreditorTransaction(s, id) == find(get(s, "creditorTransactions"), id)

\* reduceAmount with `sum = t.amount` for `sum + t.amount`: the last amount wins.
reduceAmountAssign(transactions, sum) ==
    IF transactions = <<>> THEN sum ELSE transactions[Len(transactions)].amount

RECURSIVE reduceAmount(_, _)
\* transactions.reduce((sum, t) => sum + t.amount, sum0), left to right.
reduceAmount(transactions, sum) ==
    IF transactions = <<>> THEN sum
    ELSE reduceAmount(Tail(transactions), JsAdd(sum, Head(transactions).amount))

getClientBalance(s, clientId) == reduceAmount(getTransactionsForClient(s, clientId), 0)

getCreditorBalance(s, creditorId) ==
    reduceAmount(getTransactionsForCreditor(s, creditorId), 0)

RECURSIVE reduceDebtNet(_, _, _)
\* reduceDebt without the `balance > 0` test: credits are netted against debts.
reduceDebtNet(s, clients, totalDebt) ==
    IF clients = <<>> THEN totalDebt
    ELSE reduceDebtNet(s, Tail(clients), totalDebt + getClientBalance(s, Head(clients).id))

RECURSIVE reduceDebtMinus(_, _, _)
\* reduceDebt with `totalDebt - balance` for `totalDebt + balance`.
reduceDebtMinus(s, clients, totalDebt) ==
    IF clients = <<>> THEN totalDebt
    ELSE LET balance == getClientBalance(s, Head(clients).id) IN
         reduceDebtMinus(s, Tail(clients),
                         IF balance > 0 THEN totalDebt - balance ELSE totalDebt)

RECURSIVE reduceDebt(_, _, _)
\* clients.reduce((totalDebt, client) => ..., totalDebt0), left to right.
reduceDebt(s, clients, totalDebt) ==
    IF clients = <<>> THEN totalDebt
    ELSE LET balance == getClientBalance(s, Head(clients).id) IN
         reduceDebt(s, Tail(clients),
                    IF balance > 0 THEN totalDebt + balance ELSE totalDebt)

getTotalClientDebt(s) == reduceDebt(s, getClients(s), 0)

----------------------------------------------------------------------------
(* class App *)

\* What render() puts on screen: a detail page when a selection is set,
\* else the page of currentPage.
View ==
    IF currentClientId # NoId THEN "clientDetail"
    ELSE IF currentCreditorId # NoId THEN "creditorDetail"
    ELSE currentPage

\* render that shows the detail page whether or not the record is there.
renderKeeps(s, clientId, creditorId) ==
    [clientId |-> clientId, creditorId |-> creditorId]

\* App.render with renderClientDetailPage / renderCreditorDetailPage: a selection
\* whose record is gone is cleared and render() runs again.  The selection it leaves.
render(s, clientId, creditorId) ==
    LET c == IF clientId # NoId /\ getClient(s, clientId) = <<>> THEN NoId ELSE clientId
        k == IF c = NoId /\ creditorId # NoId /\ getCreditor(s, creditorId) = <<>>
             THEN NoId ELSE creditorId
    IN  [clientId |-> c, creditorId |-> k]

\* The number of records in the store.
Total(s) ==
    Len(s["clients"]) + Len(s["transactions"]) + Len(s["sales"]) + Len(s["expenses"])
    + Len(s["products"]) + Len(s["creditors"]) + Len(s["creditorTransactions"])

\* The runs: each fills some collections, up to these lengths.
Scopes == {"clients", "sales", "creditors", "forms"}

\* The runs of the tabs, which stop between two localStorage accesses.
TabScopes == {"cascade", "compound", "writers"}

Cap(type) ==
    CASE scope = "clients" ->
            (CASE type = "clients" -> MaxParents
               [] type = "transactions" -> MaxChildren
               [] OTHER -> 0)
      [] scope = "sales" ->
            (CASE type \in {"clients", "transactions", "sales"} -> MaxSingles
               [] type = "products" -> MaxChildren
               [] OTHER -> 0)
      [] scope = "creditors" ->
            (CASE type \in {"creditors", "expenses", "products"} -> MaxSingles
               [] type = "creditorTransactions" -> MaxChildren
               [] OTHER -> 0)
      [] scope = "forms" ->
            (CASE type \in {"clients", "creditors", "transactions",
                            "creditorTransactions"} -> MaxSingles
               [] OTHER -> 0)
      [] scope = "cascade" ->
            (CASE type \in {"clients", "creditors"} -> MaxSingles
               [] type \in {"transactions", "creditorTransactions"} -> MaxChildren
               [] OTHER -> 0)
      [] scope = "compound" ->
            (CASE type \in {"products", "creditors", "sales", "expenses"} -> MaxSingles
               [] type = "creditorTransactions" -> MaxChildren
               [] OTHER -> 0)
      [] scope = "writers" ->
            (CASE type = "products" -> MaxChildren
               [] OTHER -> 0)

\* The store s is within the bounds of the run.
Within(s) ==
    /\ \A type \in EntityType : Len(s[type]) <= Cap(type)
    /\ \A i \in 1..Len(s["products"]) : s["products"][i].quantity <= MaxStock
    /\ scope = "clients" \/ Total(s) <= MaxRecords

\* The ids of the records of an array.
IdsOf(items) == {items[i].id : i \in 1..Len(items)}

\* The handler that ran last.
Ran(op, n) == [op |-> op, n |-> n]

\* A tab that is in no handler.  calls are the Store calls its handler has
\* still to make, the first of them under way; items is the array the call
\* under way has read; saved are the <<type, id>> of the records for which
\* Store.save has returned in this tab (kept in the run of the two writers).
Idle == [pc |-> "idle", calls |-> <<>>, items |-> <<>>, saved |-> {}]

\* The tabs a run of concurrent writers opens.
Tabs == 1..2

\* The end of a handler that wrote s: render().
Rendered(s, tag) ==
    /\ Within(s)
    /\ storage' = s
    /\ currentClientId' = render(s, currentClientId, currentCreditorId).clientId
    /\ currentCreditorId' = render(s, currentClientId, currentCreditorId).creditorId
    /\ last' = tag
    /\ UNCHANGED <<currentPage, scope, tabs, caches, worker>>

\* The end of a submit handler that wrote s: closeModal(); render().
Done(s, tag) ==
    /\ Rendered(s, tag)
    /\ modal' = "none"

\* new App(): the page is loaded (again) over the persisted store.
Load ==
    /\ currentPage' = "clients"
    /\ currentClientId' = NoId
    /\ currentCreditorId' = NoId
    /\ last' = Ran("view", 0)
    /\ modal' = "none"
    /\ UNCHANGED <<storage, scope, tabs, caches, worker>>

\* NavClick that changes the page and keeps the selection.
NavClickKeeps(page) ==
    /\ currentPage # page
    /\ currentPage' = page
    /\ last' = Ran("view", 0)
    /\ UNCHANGED <<storage, currentClientId, currentCreditorId, scope, modal, tabs, caches, worker>>

\* The click listener of #bottom-nav.
NavClick(page) ==
    /\ currentPage # page
    /\ currentPage' = page
    /\ currentClientId' = render(storage, NoId, NoId).clientId
    /\ currentCreditorId' = render(storage, NoId, NoId).creditorId
    /\ last' = Ran("view", 0)
    /\ UNCHANGED <<storage, scope, modal, tabs, caches, worker>>

\* The click listener of #app-content, on a .client-card of the clients page.
ClientCardClick(id) ==
    /\ View = "clients"
    /\ id \in IdsOf(getClients(storage))
    /\ currentClientId' = render(storage, id, currentCreditorId).clientId
    /\ currentCreditorId' = render(storage, id, currentCreditorId).creditorId
    /\ last' = Ran("view", 0)
    /\ UNCHANGED <<storage, currentPage, scope, modal, tabs, caches, worker>>

\* The click listener of #app-content, on a .creditor-card of the creditors page.
CreditorCardClick(id) ==
    /\ View = "creditors"
    /\ id \in IdsOf(getCreditors(storage))
    /\ currentClientId' = render(storage, currentClientId, id).clientId
    /\ currentCreditorId' = render(storage, currentClientId, id).creditorId
    /\ last' = Ran("view", 0)
    /\ UNCHANGED <<storage, currentPage, scope, modal, tabs, caches, worker>>

\* The click listener of #back-btn on a detail page.
BackClick ==
    /\ View \in {"clientDetail", "creditorDetail"}
    /\ LET c == IF View = "clientDetail" THEN NoId ELSE currentClientId
           k == IF View = "creditorDetail" THEN NoId ELSE currentCreditorId
       IN  /\ currentClientId' = render(storage, c, k).clientId
           /\ currentCreditorId' = render(storage, c, k).creditorId
    /\ last' = Ran("view", 0)
    /\ UNCHANGED <<storage, currentPage, scope, modal, tabs, caches, worker>>

\* App.handleFabClick, and App.handleUrlActions for the four forms a shortcut
\* opens: the form a click on the "+" button opens in this view.  A shortcut
\* opens its form on the page a load shows, the clients page with no selection,
\* and the page can be loaded at any time.
OpensNew(form) ==
    \/ /\ View = "clientDetail" /\ form = "transaction"
    \/ /\ View = "creditorDetail" /\ form = "creditorTransaction"
    \/ /\ View = "clients" /\ form = "client"
    \/ /\ View = "sales" /\ form = "sale"
    \/ /\ View = "expenses" /\ form = "expense"
    \/ /\ View = "inventory" /\ form = "product"
    \/ /\ View = "creditors" /\ form = "creditor"
    \/ /\ View = "clients" /\ form \in {"sale", "expense", "product"}

\* The submit listener of renderClientForm, new client.
SubmitClientNew(newId) ==
    /\ OpensNew("client")
    /\ Done(save(storage, "clients", Client(NoId), newId), Ran("clientNew", 0))

\* The submit listener of renderClientForm, opened by "Editar Cliente" on the
\* detail page of the client.
SubmitClientEdit ==
    /\ View = "clientDetail"
    /\ LET client == getClient(storage, currentClientId) IN
       /\ client # <<>>
       /\ Done(save(storage, "clients", Client(client[1].id), NoId), Ran("clientEdit", 0))

\* The submit listener of renderCreditorForm, new creditor.
SubmitCreditorNew(newId) ==
    /\ OpensNew("creditor")
    /\ Done(save(storage, "creditors", Creditor(NoId), newId), Ran("creditorNew", 0))

\* The submit listener of renderCreditorForm, opened by "Editar Acreedor".
SubmitCreditorEdit ==
    /\ View = "creditorDetail"
    /\ LET creditor == getCreditor(storage, currentCreditorId) IN
       /\ creditor # <<>>
       /\ Done(save(storage, "creditors", Creditor(creditor[1].id), NoId), Ran("creditorEdit", 0))

\* value || fallback on ids.
OrId(value, fallback) == IF value # NoId THEN value ELSE fallback

\* What a required number field can hold when a form that edits a record is
\* submitted: a typed amount, or the amount the form was filled with.
Typed(record) == Amounts \cup ({record.amount} \ {Null})

\* The submit listener of renderTransactionForm, new transaction: the "+" button
\* of a client's detail page.
SubmitTransactionNew(amount, newId) ==
    /\ OpensNew("transaction")
    /\ Done(save(storage, "transactions",
                 Transaction(NoId, OrId(NoId, currentClientId), amount), newId),
            Ran("transactionNew", amount))

\* The submit listener of renderTransactionForm, opened by the edit button of a
\* transaction listed on the client's detail page.
SubmitTransactionEdit(id, amount) ==
    /\ View = "clientDetail"
    /\ id \in IdsOf(getTransactionsForClient(storage, currentClientId))
    /\ LET transaction == getTransaction(storage, id) IN
       /\ transaction # <<>>
       /\ amount \in Typed(transaction[1])
       /\ Done(save(storage, "transactions",
                    Transaction(transaction[1].id,
                                OrId(transaction[1].clientId, currentClientId), amount),
                    NoId),
               Ran("transactionEdit", amount))

\* The options of the product select of the sale form: 0 is "Venta Manual",
\* i is the i-th product, offered when its quantity is > 0.
SaleOptions(s) ==
    {0} \cup {i \in 1..Len(getProducts(s)) : getProducts(s)[i].quantity > 0}

\* parseFloat(selectedOption.dataset.price || '0').
OptionPrice(s, option) == IF option = 0 THEN 0 ELSE getProducts(s)[option].price

\* productSelect.value.
OptionId(s, option) == IF option = 0 THEN NoId ELSE getProducts(s)[option].id

\* x || 1 on a quantity.
OrOne(x) == IF x = NaN \/ x = 0 THEN 1 ELSE x

\* updateSaleForm: what the amount field of a new sale can hold at submit.  A
\* price > 0 writes price * quantity into the field and makes it read-only.
\* Otherwise the field is editable and required, so it holds a typed amount.  It
\* is read-only and still empty when "Venta Manual" was never left, and it cannot
\* be left and come back to when the select has no other option.
updateSaleForm(s, option, quantity) ==
    IF OptionPrice(s, option) > 0
    THEN {OptionPrice(s, option) * OrOne(quantity)}
    ELSE IF option # 0 THEN Amounts
    ELSE IF SaleOptions(s) = {0} THEN {NaN}
    ELSE Amounts \cup {NaN}

\* SaleStockCheck that looks the product up even when none is selected.
SaleStockCheckAlways(s, productId, quantity) ==
    LET product == getProduct(s, productId) IN
    IF product # <<>> /\ quantity # NaN /\ product[1].quantity >= quantity
    THEN <<save(s, "products",
                [product[1] EXCEPT !.quantity = product[1].quantity - quantity],
                NoId)>>
    ELSE <<>>

\* SaleStockCheck without the comparison with the stock.
SaleStockUnchecked(s, productId, quantity) ==
    IF productId # NoId /\ getProduct(s, productId) # <<>>
    THEN <<save(s, "products",
                [getProduct(s, productId)[1] EXCEPT !.quantity = @ - quantity], NoId)>>
    ELSE <<s>>

\* The stock check of the sale form's submit listener: the store after it, or
\* <<>> when it alerts and returns.  The quantity is parseInt of the field, NaN
\* when the field was emptied, and no number is >= NaN.
SaleStockCheck(s, productId, quantity) ==
    IF productId # NoId
    THEN LET product == getProduct(s, productId) IN
         IF product # <<>> /\ quantity # NaN /\ product[1].quantity >= quantity
         THEN <<save(s, "products",
                     [product[1] EXCEPT !.quantity = product[1].quantity - quantity],
                     NoId)>>
         ELSE <<>>
    ELSE <<s>>

\* SaleRecord that records the sale to a client as a sale too.
SaleRecordBoth(s, clientId, amount, newId) ==
    IF clientId # NoId
    THEN save(save(s, "transactions", Transaction(NoId, clientId, JsAbs(amount)), newId),
              "sales", Sale(NoId, amount), newId)
    ELSE save(s, "sales", Sale(NoId, amount), newId)

\* The record the sale form's submit listener saves for a new sale: a client
\* transaction when a client is chosen, else a sale.
SaleRecord(s, clientId, amount, newId) ==
    IF clientId # NoId
    THEN save(s, "transactions", Transaction(NoId, clientId, JsAbs(amount)), newId)
    ELSE save(s, "sales", Sale(NoId, amount), newId)

\* The values the max attribute of the quantity field can have at submit:
\* updateSaleForm sets it to the stock of the selected product when the price is
\* > 0, and leaves it as it is otherwise.
QuantityMax(s, option) ==
    LET Priced == {i \in SaleOptions(s) \ {0} : OptionPrice(s, i) > 0} IN
    {getProduct(s, OptionId(s, i))[1].quantity :
        i \in IF OptionPrice(s, option) > 0 THEN {option} ELSE Priced}

\* What the quantity field can hold when the browser lets the form be
\* submitted.  It starts at 1; it is shown, and can be typed into or emptied,
\* once a product with a price > 0 is selected, and the browser then holds it
\* within min = 1 and the max attribute.
ValidQuantity(s, option, quantity) ==
    \/ quantity = 1
    \/ \E max \in QuantityMax(s, option) :
          quantity = NaN \/ (1 <= quantity /\ quantity <= max)

\* What the sale form can submit for a new sale over the store s.
SaleInput(s, clientId, option, quantity, amount) ==
    /\ clientId \in {NoId} \cup IdsOf(getClients(s))
    /\ option \in SaleOptions(s)
    /\ ValidQuantity(s, option, quantity)
    /\ amount \in updateSaleForm(s, option, quantity)

\* The body of the sale form's submit listener for a new sale: whether it
\* alerts "No hay suficiente stock" and returns, and the store it leaves.
submitSale(s, clientId, option, quantity, amount, newId) ==
    LET checked == SaleStockCheck(s, OptionId(s, option), quantity) IN
    IF checked = <<>>
    THEN [alert |-> TRUE, storage |-> s]
    ELSE [alert |-> FALSE, storage |-> SaleRecord(checked[1], clientId, amount, newId)]

\* The submit listener of renderSaleForm, new sale.
SubmitSaleNew(clientId, option, quantity, amount, newId) ==
    /\ OpensNew("sale")
    /\ SaleInput(storage, clientId, option, quantity, amount)
    /\ LET submitted == submitSale(storage, clientId, option, quantity, amount, newId) IN
       IF submitted.alert
       THEN /\ storage' = submitted.storage
            /\ last' = Ran("saleRejected", quantity)
            /\ modal' = "none"
            /\ UNCHANGED <<currentPage, currentClientId, currentCreditorId, scope, tabs, caches, worker>>
       ELSE Done(submitted.storage,
                 Ran(IF option = 0 THEN "saleManual" ELSE "saleInventory", quantity))

\* The submit listener of renderSaleForm, opened by the edit button of a sale.
SubmitSaleEdit(id, amount) ==
    /\ View = "sales"
    /\ id \in IdsOf(getSales(storage))
    /\ LET sale == getSale(storage, id) IN
       /\ sale # <<>>
       /\ amount \in Typed(sale[1])
       /\ Done(save(storage, "sales", Sale(sale[1].id, amount), NoId),
               Ran("saleEdit", amount))

\* ExpensePayment with Math.abs(amount) for -Math.abs(amount).
ExpensePaymentPositive(s, creditorId, amount, isEditing, newId) ==
    IF creditorId # NoId /\ ~isEditing
    THEN save(s, "creditorTransactions",
              CreditorTransaction(NoId, creditorId, JsAbs(amount)), newId)
    ELSE s

\* ExpensePayment without the `!isEditing` test.
ExpensePaymentOnEdit(s, creditorId, amount, isEditing, newId) ==
    IF creditorId # NoId
    THEN save(s, "creditorTransactions",
              CreditorTransaction(NoId, creditorId, JsNeg(JsAbs(amount))), newId)
    ELSE s

\* The creditor payment of the expense form's submit listener.
ExpensePayment(s, creditorId, amount, isEditing, newId) ==
    IF creditorId # NoId /\ ~isEditing
    THEN save(s, "creditorTransactions",
              CreditorTransaction(NoId, creditorId, JsNeg(JsAbs(amount))), newId)
    ELSE s

\* The body of the expense form's submit listener: the store it leaves.  id is
\* the hidden id field, NoId for a new expense.
submitExpense(s, id, creditorId, amount, isEditing, newId, newId2) ==
    ExpensePayment(save(s, "expenses", Expense(id, amount, creditorId), newId),
                   creditorId, amount, isEditing, newId2)

\* The submit listener of renderExpenseForm, new expense.
SubmitExpenseNew(creditorId, amount, newId, newId2) ==
    /\ OpensNew("expense")
    /\ creditorId \in {NoId} \cup IdsOf(getCreditors(storage))
    /\ Done(submitExpense(storage, NoId, creditorId, amount, FALSE, newId, newId2),
            Ran(IF creditorId # NoId THEN "expenseNewCreditor" ELSE "expenseNew", amount))

\* The submit listener of renderExpenseForm, opened by the edit button of an expense.
SubmitExpenseEdit(id, creditorId, amount) ==
    /\ View = "expenses"
    /\ id \in IdsOf(getExpenses(storage))
    /\ creditorId \in {NoId} \cup IdsOf(getCreditors(storage))
    /\ LET expense == getExpense(storage, id) IN
       /\ expense # <<>>
       /\ amount \in Typed(expense[1])
       /\ Done(submitExpense(storage, expense[1].id, creditorId, amount, TRUE, NoId, NoId),
               Ran(IF creditorId # NoId THEN "expenseEditCreditor" ELSE "expenseEdit",
                   expense[1].creditorId))

\* The submit listener of renderProductForm, new product.
SubmitProductNew(price, quantity, newId) ==
    /\ OpensNew("product")
    /\ Done(save(storage, "products", Product(NoId, price, quantity), newId),
            Ran("productNew", 0))

\* The submit listener of renderProductForm, opened by the edit button of a product.
SubmitProductEdit(id, price, quantity) ==
    /\ View = "inventory"
    /\ id \in IdsOf(getProducts(storage))
    /\ LET product == getProduct(storage, id) IN
       /\ product # <<>>
       /\ Done(save(storage, "products", Product(product[1].id, price, quantity), NoId),
               Ran("productEdit", 0))

\* StockReceipt with `product.quantity = quantity` for `product.quantity += quantity`.
StockReceiptAssign(s, productId, quantity, isEditing) ==
    IF productId # NoId /\ quantity # NaN /\ quantity > 0 /\ ~isEditing
    THEN LET product == getProduct(s, productId) IN
         IF product # <<>>
         THEN save(s, "products", [product[1] EXCEPT !.quantity = quantity], NoId)
         ELSE s
    ELSE s

\* The stock receipt of the creditor transaction form's submit listener.
StockReceipt(s, productId, quantity, isEditing) ==
    IF productId # NoId /\ quantity # NaN /\ quantity > 0 /\ ~isEditing
    THEN LET product == getProduct(s, productId) IN
         IF product # <<>>
         THEN save(s, "products",
                   [product[1] EXCEPT !.quantity = product[1].quantity + quantity], NoId)
         ELSE s
    ELSE s

\* The body of the creditor transaction form's submit listener: the store it
\* leaves.  id is the hidden id field, NoId for a new transaction.
submitCreditorTransaction(s, id, creditorId, productId, quantity, amount, isEditing, newId) ==
    save(StockReceipt(s, productId, quantity, isEditing), "creditorTransactions",
         CreditorTransaction(id, creditorId, amount), newId)

\* The submit listener of renderCreditorTransactionForm, new purchase or payment:
\* the "+" button of a creditor's detail page.
SubmitCreditorTransactionNew(productId, quantity, amount, newId) ==
    /\ OpensNew("creditorTransaction")
    /\ productId \in {NoId} \cup IdsOf(getProducts(storage))
    /\ Done(submitCreditorTransaction(storage, NoId, OrId(NoId, currentCreditorId),
                                      productId, quantity, amount, FALSE, newId),
            Ran(IF StockReceipt(storage, productId, quantity, FALSE) # storage
                THEN "creditorTransactionReceipt"
                ELSE "creditorTransactionNew", amount))

\* The submit listener of renderCreditorTransactionForm, opened by the edit
\* button of a transaction listed on the creditor's detail page.
SubmitCreditorTransactionEdit(id, amount) ==
    /\ View = "creditorDetail"
    /\ id \in IdsOf(getTransactionsForCreditor(storage, currentCreditorId))
    /\ LET transaction == getCreditorTransaction(storage, id) IN
       /\ transaction # <<>>
       /\ amount \in Typed(transaction[1])
       /\ Done(submitCreditorTransaction(storage, transaction[1].id,
                        OrId(transaction[1].creditorId, currentCreditorId),
                        NoId, NaN, amount, TRUE, NoId),
               Ran("creditorTransactionEdit", amount))

\* handleFabClick on a detail page, the form left open: showModal puts the form
\* in #modal-container, a div over the page, and the page's buttons stay in the
\* document.  (The run "forms" keeps these forms open; everywhere else a form is
\* submitted in the step that opens it.)
FabClick ==
    /\ scope = "forms"
    /\ View \in {"clientDetail", "creditorDetail"}
    /\ modal' = IF currentClientId # NoId THEN "transaction" ELSE "creditorTransaction"
    /\ last' = Ran("view", 0)
    /\ UNCHANGED <<storage, currentPage, currentClientId, currentCreditorId, scope, tabs, caches, worker>>

\* The click listener showModal puts on .close-btn: closeModal().
CloseClick ==
    /\ modal # "none"
    /\ modal' = "none"
    /\ last' = Ran("view", 0)
    /\ UNCHANGED <<storage, currentPage, currentClientId, currentCreditorId, scope, tabs, caches, worker>>

\* The submit listener of renderTransactionForm on the open form of a new
\* transaction: this.currentClientId is read when the form is submitted.
SubmitTransactionOpen(amount, newId) ==
    /\ modal = "transaction"
    /\ Done(save(storage, "transactions",
                 Transaction(NoId, OrId(NoId, currentClientId), amount), newId),
            Ran("transactionNew", amount))

\* The submit listener of renderCreditorTransactionForm on the open form of a
\* new creditor transaction; the product select lists the products of the store.
SubmitCreditorTransactionOpen(productId, quantity, amount, newId) ==
    /\ modal = "creditorTransaction"
    /\ productId \in {NoId} \cup IdsOf(getProducts(storage))
    /\ Done(submitCreditorTransaction(storage, NoId, OrId(NoId, currentCreditorId),
                                      productId, quantity, amount, FALSE, newId),
            Ran("creditorTransactionNew", amount))

\* The delete buttons a view shows: the ids that data-id can carry for data-type.
DeleteButtons(type) ==
    CASE type = "clients" ->
            IF View = "clientDetail" THEN {currentClientId} ELSE {}
      [] type = "transactions" ->
            IF View = "clientDetail"
            THEN IdsOf(getTransactionsForClient(storage, currentClientId)) ELSE {}
      [] type = "sales" -> IF View = "sales" THEN IdsOf(getSales(storage)) ELSE {}
      [] type = "expenses" ->
            IF View = "expenses" THEN IdsOf(getExpenses(storage)) ELSE {}
      [] type = "products" ->
            IF View = "inventory" THEN IdsOf(getProducts(storage)) ELSE {}
      [] type = "creditors" ->
            IF View = "creditorDetail" THEN {currentCreditorId} ELSE {}
      [] type = "creditorTransactions" ->
            IF View = "creditorDetail"
            THEN IdsOf(getTransactionsForCreditor(storage, currentCreditorId)) ELSE {}

\* App.handleDeleteClick, confirmed.
DeleteClick(type, id) ==
    /\ id \in DeleteButtons(type)
    /\ UNCHANGED modal
    /\ Rendered(delete(storage, type, id),
            CASE type = "clients" ->
                    Ran("deleteClient", Len(getTransactionsForClient(storage, id)))
              [] type = "creditors" ->
                    Ran("deleteCreditor", Len(getTransactionsForCreditor(storage, id)))
              [] OTHER -> Ran("delete", 0))

----------------------------------------------------------------------------
(* The service worker, sw.js *)

CACHE_NAME == "gestion-finanzas-cache-v4"

\* The caches earlier versions of the worker may have left in CacheStorage.
OldNames == {"gestion-finanzas-cache-v3", "gestion-finanzas-cache-v2"}

\* Of urlsToCache, two; and the requests a page makes: these and one more.
urlsToCache == {"/index.html", "/icon-192.svg"}
Requests == urlsToCache \cup {"/favicon.ico"}

cacheWhitelist == {CACHE_NAME}

\* A response: from a cache (which one), from the network, or a network error.
Response(from, name, url) == [from |-> from, name |-> name, url |-> url]

\* undefined, what caches.match resolves with when no cache has the request.
NoResponse == Response("none", "", "")

\* No fetch event is under way.
NoFetch ==
    [pc |-> "idle", url |-> "", matched |-> NoResponse, contacted |-> FALSE,
     response |-> NoResponse]

\* The worker before its install event.  keys is the array caches.keys()
\* resolved with, pending the caches.delete promises Promise.all waits for.
Parsed == [phase |-> "parsed", keys |-> <<>>, pending |-> {}, fetch |-> NoFetch]

\* The names of the caches, in creation order: what caches.keys() resolves with.
keys(c) == [i \in 1..Len(c) |-> c[i].name]

\* The set of the elements of a sequence.
Range(seq) == {seq[i] : i \in 1..Len(seq)}

\* caches.open(name): the cache is created, empty, when it is not there.
open(c, name) ==
    IF name \in Range(keys(c)) THEN c ELSE Append(c, [name |-> name, urls |-> {}])

\* cache.addAll(urls) on the cache of this name, fulfilled.
addAll(c, name, urls) ==
    [i \in 1..Len(c) |->
        IF c[i].name = name THEN [c[i] EXCEPT !.urls = @ \cup urls] ELSE c[i]]

\* caches.delete(name).
deleteCache(c, name) ==
    LET Other(cache) == cache.name # name IN SelectSeq(c, Other)

RECURSIVE match(_, _)
\* caches.match(request): the response of the first cache, in creation order,
\* that has the request; undefined when none has.
match(c, url) ==
    IF c = <<>> THEN NoResponse
    ELSE IF url \in Head(c).urls THEN Response("cache", Head(c).name, url)
    ELSE match(Tail(c), url)

\* The activate listener that deletes every cache caches.keys() names.
StaleAll(cacheNames) == Range(cacheNames)

\* The caches the activate listener deletes, of those caches.keys() names:
\* those with cacheWhitelist.indexOf(cacheName) === -1.
Stale(cacheNames) == {cacheName \in Range(cacheNames) : cacheName \notin cacheWhitelist}

\* The fetch listener that goes to the network whatever the cache holds.
respondNetworkFirst(fetch, response) ==
    [fetch EXCEPT !.pc = "network", !.matched = response]

\* The then-callback of caches.match in the fetch listener: the cached response
\* when there is one, else fetch(event.request).
respond(fetch, response) ==
    IF response # NoResponse
    THEN [fetch EXCEPT !.pc = "done", !.matched = response, !.response = response]
    ELSE [fetch EXCEPT !.pc = "network", !.matched = response]

\* What the worker's steps leave alone: the page's state.
WorkerFrame ==
    UNCHANGED <<storage, currentPage, currentClientId, currentCreditorId, last, scope,
                modal, tabs>>

\* The install event: caches.open(CACHE_NAME) is fulfilled.
InstallOpen ==
    /\ worker.phase = "parsed"
    /\ caches' = open(caches, CACHE_NAME)
    /\ worker' = [worker EXCEPT !.phase = "installing"]
    /\ WorkerFrame

\* cache.addAll(urlsToCache) is fulfilled: every url was fetched and is cached.
InstallAddAll ==
    /\ worker.phase = "installing"
    /\ caches' = addAll(caches, CACHE_NAME, urlsToCache)
    /\ worker' = [worker EXCEPT !.phase = "installed"]
    /\ WorkerFrame

\* cache.addAll(urlsToCache) is rejected (a url could not be fetched): nothing is
\* added, waitUntil's promise is rejected and the worker is discarded.
InstallFails ==
    /\ worker.phase = "installing"
    /\ worker' = [worker EXCEPT !.phase = "redundant"]
    /\ UNCHANGED caches
    /\ WorkerFrame

\* The activate event: caches.keys() is fulfilled, and the map callback has
\* called caches.delete for the caches that are not in the whitelist.
ActivateKeys ==
    /\ worker.phase = "installed"
    /\ worker' = [worker EXCEPT !.phase = "activating", !.keys = keys(caches),
                                !.pending = Stale(keys(caches))]
    /\ UNCHANGED caches
    /\ WorkerFrame

\* One of the caches.delete promises is fulfilled.
ActivateDelete(cacheName) ==
    /\ worker.phase = "activating"
    /\ cacheName \in worker.pending
    /\ caches' = deleteCache(caches, cacheName)
    /\ worker' = [worker EXCEPT !.pending = @ \ {cacheName}]
    /\ WorkerFrame

\* Promise.all is fulfilled, and with it waitUntil's promise: the worker is active.
ActivateResolved ==
    /\ worker.phase = "activating"
    /\ worker.pending = {}
    /\ worker' = [worker EXCEPT !.phase = "activated"]
    /\ UNCHANGED caches
    /\ WorkerFrame

\* A fetch event reaches the active worker: caches.match(event.request) is called.
FetchEvent(url) ==
    /\ worker.phase = "activated"
    /\ worker.fetch.pc \in {"idle", "done"}
    /\ worker' = [worker EXCEPT !.fetch = [NoFetch EXCEPT !.pc = "match", !.url = url]]
    /\ UNCHANGED caches
    /\ WorkerFrame

\* caches.match is fulfilled and its then-callback runs.
FetchMatch ==
    /\ worker.fetch.pc = "match"
    /\ worker' = [worker EXCEPT
                     !.fetch = respond(@, match(caches, worker.fetch.url))]
    /\ UNCHANGED caches
    /\ WorkerFrame

\* fetch(event.request) is settled: with the network's response, or, off line,
\* with a network error.
FetchNetwork(ok) ==
    /\ worker.fetch.pc = "network"
    /\ worker' = [worker EXCEPT
                     !.fetch = [@ EXCEPT !.pc = "done", !.contacted = TRUE,
                                         !.response =
                                             Response(IF ok THEN "network" ELSE "error",
                                                      "", worker.fetch.url)]]
    /\ UNCHANGED caches
    /\ WorkerFrame

\* What CacheStorage can hold when the worker is installed: caches of earlier
\* versions, each with some of the requests, in some order.
OldCaches ==
    {<<>>}
    \cup {<<[name |-> name, urls |-> urls]>> : name \in OldNames, urls \in SUBSET Requests}
    \cup {c \in {<<[name |-> n1, urls |-> u1], [name |-> n2, urls |-> u2]>> :
                    n1 \in OldNames, n2 \in OldNames,
                    u1 \in SUBSET Requests, u2 \in SUBSET Requests} :
            c[1].name # c[2].name}

\* navigator.serviceWorker.register('/sw.js'), the page left as it is loaded.
WorkerInit ==
    /\ storage = [type \in EntityType |-> <<>>]
    /\ currentPage = "clients"
    /\ currentClientId = NoId
    /\ currentCreditorId = NoId
    /\ last = Ran("view", 0)
    /\ scope = "worker"
    /\ modal = "none"
    /\ tabs = [t \in Tabs |-> Idle]
    /\ caches \in OldCaches
    /\ worker = Parsed

WorkerNext ==
    \/ InstallOpen
    \/ InstallAddAll
    \/ InstallFails
    \/ ActivateKeys
    \/ \E cacheName \in OldNames \cup {CACHE_NAME} : ActivateDelete(cacheName)
    \/ ActivateResolved
    \/ \E url \in Requests : FetchEvent(url)
    \/ FetchMatch
    \/ \E ok \in BOOLEAN : FetchNetwork(ok)

WorkerSpec == WorkerInit /\ [][WorkerNext]_vars

----------------------------------------------------------------------------
(* The specification *)

\* A first load over an empty localStorage.
Init ==
    /\ storage = [type \in EntityType |-> <<>>]
    /\ currentPage = "clients"
    /\ currentClientId = NoId
    /\ currentCreditorId = NoId
    /\ last = Ran("view", 0)
    /\ scope \in Scopes
    /\ modal = "none"
    /\ tabs = [t \in Tabs |-> Idle]
    /\ caches = <<>>
    /\ worker = Parsed

Next ==
    \/ Load
    \/ \E page \in Pages : NavClick(page)
    \/ \E id \in Ids : ClientCardClick(id)
    \/ \E id \in Ids : CreditorCardClick(id)
    \/ BackClick
    \/ \E newId \in Ids : SubmitClientNew(newId)
    \/ SubmitClientEdit
    \/ \E newId \in Ids : SubmitCreditorNew(newId)
    \/ SubmitCreditorEdit
    \/ \E amount \in Amounts, newId \in Ids : SubmitTransactionNew(amount, newId)
    \/ \E id \in Ids, amount \in Amounts : SubmitTransactionEdit(id, amount)
    \/ \E clientId \in {NoId} \cup Ids, option \in 0..MaxChildren,
          quantity \in {NaN} \cup 1..MaxSaleQty,
          amount \in Amounts \cup {NaN} \cup 1..(MaxPrice * MaxSaleQty),
          newId \in Ids :
          SubmitSaleNew(clientId, option, quantity, amount, newId)
    \/ \E id \in Ids, amount \in Amounts \cup 1..(MaxPrice * MaxSaleQty) :
          SubmitSaleEdit(id, amount)
    \/ \E creditorId \in {NoId} \cup Ids, amount \in Amounts, newId \in Ids,
          newId2 \in Ids :
          SubmitExpenseNew(creditorId, amount, newId, newId2)
    \/ \E id \in Ids, creditorId \in {NoId} \cup Ids, amount \in Amounts :
          SubmitExpenseEdit(id, creditorId, amount)
    \/ \E price \in Prices, quantity \in Stocks, newId \in Ids :
          SubmitProductNew(price, quantity, newId)
    \/ \E id \in Ids, price \in Prices, quantity \in Stocks :
          SubmitProductEdit(id, price, quantity)
    \/ \E productId \in {NoId} \cup Ids, quantity \in {NaN} \cup Stocks,
          amount \in Amounts, newId \in Ids :
          SubmitCreditorTransactionNew(productId, quantity, amount, newId)
    \/ \E id \in Ids, amount \in Amounts : SubmitCreditorTransactionEdit(id, amount)
    \/ \E type \in EntityType, id \in Ids : DeleteClick(type, id)
    \/ FabClick
    \/ CloseClick
    \/ \E amount \in Amounts, newId \in Ids : SubmitTransactionOpen(amount, newId)
    \/ \E productId \in {NoId} \cup Ids, quantity \in {NaN} \cup Stocks,
          amount \in Amounts, newId \in Ids :
          SubmitCreditorTransactionOpen(productId, quantity, amount, newId)

Spec == Init /\ [][Next]_vars

----------------------------------------------------------------------------
(* The tabs: the same Store over the same localStorage, one handler at a     *)
(* time in each tab, and the tabs interleaved at the localStorage accesses.  *)
(* A handler is the list of the Store calls it makes; a call is a getItem    *)
(* and then a setItem, and Store.delete of a client or creditor is two such  *)
(* pairs.  setItem throws when the quota is exceeded, and nothing catches it:*)
(* the handler ends there.                                                   *)

SaveCall(type, item, newId) ==
    [fn |-> "save", type |-> type, item |-> item, newId |-> newId, id |-> NoId]
DeleteCall(type, id) ==
    [fn |-> "delete", type |-> type, item |-> Client(NoId), newId |-> NoId, id |-> id]

\* The collection Store.delete filters after the collection of the record.
ChildrenOf(type) ==
    IF type = "clients" THEN "transactions" ELSE "creditorTransactions"

\* Tab t is open in this run and in no handler.  The run of the two writers
\* has two tabs; what the other runs show does not need a second writer.
CanBegin(t) ==
    /\ scope = "writers" \/ t = 1
    /\ tabs[t].pc = "idle"

\* A tab that has begun a handler that makes these calls.
Began(t, calls) ==
    [tabs EXCEPT ![t] = [@ EXCEPT !.pc = "get", !.calls = calls, !.items = <<>>]]

\* The tab after the call under way has returned.
Returned(tab) ==
    LET call == Head(tab.calls)
        saved == IF call.fn = "save" /\ scope = "writers"
                 THEN tab.saved \cup {<<call.type, saveReturns(call.item, call.newId).id>>}
                 ELSE tab.saved
    IN  [pc |-> IF Tail(tab.calls) = <<>> THEN "idle" ELSE "get",
         calls |-> Tail(tab.calls), items |-> <<>>, saved |-> saved]

\* What a tab leaves unchanged.
TabFrame ==
    UNCHANGED <<currentPage, currentClientId, currentCreditorId, scope, modal,
                caches, worker>>

\* A step of a tab that writes nothing.
TabReads == UNCHANGED <<storage, last>> /\ TabFrame

\* The submit listener of renderClientForm / renderCreditorForm in tab t, new record.
TabSubmitParentNew(t, type, newId) ==
    /\ CanBegin(t)
    /\ type \in {"clients", "creditors"}
    /\ Cap(type) > 0
    /\ tabs' = Began(t, <<SaveCall(type, [id |-> NoId], newId)>>)
    /\ TabReads

\* The submit listener of renderTransactionForm in tab t, on the detail page of
\* a client the tab has rendered.
TabSubmitTransactionNew(t, clientId, amount, newId) ==
    /\ CanBegin(t)
    /\ scope = "cascade"
    /\ clientId \in IdsOf(getClients(storage))
    /\ tabs' = Began(t, <<SaveCall("transactions", Transaction(NoId, clientId, amount), newId)>>)
    /\ TabReads

\* The submit listener of renderProductForm in tab t, new product.
TabSubmitProductNew(t, price, quantity, newId) ==
    /\ CanBegin(t)
    /\ Cap("products") > 0
    /\ tabs' = Began(t, <<SaveCall("products", Product(NoId, price, quantity), newId)>>)
    /\ TabReads

\* The submit listener of renderSaleForm in tab t, new sale with no client, up to
\* Store.getProduct: the stock check, on the stock this read finds, and the
\* Store calls that follow it.  A rejected sale makes none.
TabSubmitSaleNew(t, option, quantity, amount, newId) ==
    /\ CanBegin(t)
    /\ scope = "compound"
    /\ SaleInput(storage, NoId, option, quantity, amount)
    /\ LET product == getProduct(storage, OptionId(storage, option))
           sale == SaveCall("sales", Sale(NoId, amount), newId)
       IN  tabs' = IF option = 0 THEN Began(t, <<sale>>)
                   ELSE IF product # <<>> /\ quantity # NaN
                           /\ product[1].quantity >= quantity
                   THEN Began(t, <<SaveCall("products",
                                            [product[1] EXCEPT !.quantity = @ - quantity],
                                            NoId),
                                   sale>>)
                   ELSE tabs
    /\ TabReads

\* The submit listener of renderExpenseForm in tab t, new expense.
TabSubmitExpenseNew(t, creditorId, amount, newId, newId2) ==
    /\ CanBegin(t)
    /\ scope = "compound"
    /\ creditorId \in {NoId} \cup IdsOf(getCreditors(storage))
    /\ tabs' = Began(t, <<SaveCall("expenses", Expense(NoId, amount, creditorId), newId)>>
                        \o IF creditorId # NoId
                           THEN <<SaveCall("creditorTransactions",
                                           CreditorTransaction(NoId, creditorId,
                                                               JsNeg(JsAbs(amount))),
                                           newId2)>>
                           ELSE <<>>)
    /\ TabReads

\* The submit listener of renderCreditorTransactionForm in tab t, new purchase,
\* on the detail page of a creditor the tab has rendered, up to Store.getProduct.
TabSubmitCreditorTransactionNew(t, creditorId, productId, quantity, amount, newId) ==
    /\ CanBegin(t)
    /\ scope = "compound"
    /\ creditorId \in IdsOf(getCreditors(storage))
    /\ productId \in {NoId} \cup IdsOf(getProducts(storage))
    /\ LET product == getProduct(storage, productId)
           purchase == SaveCall("creditorTransactions",
                                CreditorTransaction(NoId, creditorId, amount), newId)
       IN  tabs' = IF productId # NoId /\ quantity # NaN /\ quantity > 0 /\ product # <<>>
                   THEN Began(t, <<SaveCall("products",
                                            [product[1] EXCEPT !.quantity = @ + quantity],
                                            NoId),
                                   purchase>>)
                   ELSE Began(t, <<purchase>>)
    /\ TabReads

\* App.handleDeleteClick in tab t, confirmed, on a delete button the tab has rendered.
TabDeleteClick(t, type, id) ==
    /\ CanBegin(t)
    /\ scope = "cascade"
    /\ id \in IdsOf(get(storage, type))
    /\ tabs' = Began(t, <<DeleteCall(type, id)>>)
    /\ TabReads

\* this.get(type) of Store.save and Store.delete: localStorage.getItem.
TabGet(t) ==
    /\ tabs[t].pc = "get"
    /\ tabs' = [tabs EXCEPT ![t] = [@ EXCEPT !.pc = "set",
                                             !.items = get(storage, Head(tabs[t].calls).type)]]
    /\ TabReads

\* TabItems that builds the array from the collection as it is now stored (what
\* a compare-and-swap would amount to), not from the array the tab has read.
TabItemsFresh(tab) ==
    LET call == Head(tab.calls)
        NotId(item) == item.id # call.id
    IN  IF call.fn = "save"
        THEN save(storage, call.type, call.item, call.newId)[call.type]
        ELSE SelectSeq(get(storage, call.type), NotId)

\* The array the call under way hands to this.set(type, ...).
TabItems(tab) ==
    LET call == Head(tab.calls)
        NotId(item) == item.id # call.id
    IN  IF call.fn = "save"
        THEN save([storage EXCEPT ![call.type] = tab.items], call.type, call.item,
                  call.newId)[call.type]
        ELSE SelectSeq(tab.items, NotId)

\* this.set(type, items) of Store.save and Store.delete: localStorage.setItem.
TabSet(t) ==
    /\ tabs[t].pc = "set"
    /\ LET call == Head(tabs[t].calls) IN
       /\ storage' = set(storage, call.type, TabItems(tabs[t]))
       /\ Within(storage')
       /\ tabs' = [tabs EXCEPT ![t] =
                      IF call.fn = "delete" /\ call.type \in {"clients", "creditors"}
                      THEN [@ EXCEPT !.pc = "getChildren", !.items = <<>>]
                      ELSE Returned(@)]
    /\ last' = Ran("view", 0)
    /\ TabFrame

\* localStorage.setItem throws QuotaExceededError: the value is not written, and
\* the exception leaves Store and the handler.  A value that is shorter than the
\* one it replaces is taken to fit.
TabSetThrows(t) ==
    /\ tabs[t].pc = "set"
    /\ Len(TabItems(tabs[t])) >= Len(get(storage, Head(tabs[t].calls).type))
    /\ tabs' = [tabs EXCEPT ![t] = [@ EXCEPT !.pc = "idle", !.calls = <<>>, !.items = <<>>]]
    /\ last' = Ran("threw", t)
    /\ UNCHANGED storage
    /\ TabFrame

\* this.get of the children in Store.delete of a client or creditor.
TabGetChildren(t) ==
    /\ tabs[t].pc = "getChildren"
    /\ tabs' = [tabs EXCEPT ![t] =
                   [@ EXCEPT !.pc = "setChildren",
                             !.items = get(storage, ChildrenOf(Head(tabs[t].calls).type))]]
    /\ TabReads

\* this.set of the children in Store.delete of a client or creditor.
TabSetChildren(t) ==
    /\ tabs[t].pc = "setChildren"
    /\ LET call == Head(tabs[t].calls)
           NotClient(x) == x.clientId # call.id
           NotCreditor(x) == x.creditorId # call.id
       IN  storage' = set(storage, ChildrenOf(call.type),
                          IF call.type = "clients"
                          THEN SelectSeq(tabs[t].items, NotClient)
                          ELSE SelectSeq(tabs[t].items, NotCreditor))
    /\ tabs' = [tabs EXCEPT ![t] = Returned(@)]
    /\ last' = Ran("view", 0)
    /\ TabFrame

\* Each tab is loaded over an empty localStorage.
TabInit ==
    /\ storage = [type \in EntityType |-> <<>>]
    /\ currentPage = "clients"
    /\ currentClientId = NoId
    /\ currentCreditorId = NoId
    /\ last = Ran("view", 0)
    /\ scope \in TabScopes
    /\ modal = "none"
    /\ tabs = [t \in Tabs |-> Idle]
    /\ caches = <<>>
    /\ worker = Parsed

TabNext ==
    \E t \in Tabs :
        \/ \E type \in {"clients", "creditors"}, newId \in Ids :
              TabSubmitParentNew(t, type, newId)
        \/ \E clientId \in Ids, amount \in 1..MaxAmt, newId \in Ids :
              TabSubmitTransactionNew(t, clientId, amount, newId)
        \/ \E type \in {"clients", "creditors", "transactions"}, id \in Ids :
              TabDeleteClick(t, type, id)
        \/ \E price \in 1..1, quantity \in 1..1, newId \in Ids :
              TabSubmitProductNew(t, price, quantity, newId)
        \/ \E option \in 0..MaxSingles, quantity \in 1..MaxSaleQty,
              amount \in 1..MaxSaleQty, newId \in Ids :
              TabSubmitSaleNew(t, option, quantity, amount, newId)
        \/ \E creditorId \in {NoId} \cup Ids, amount \in 1..MaxAmt, newId \in Ids,
              newId2 \in Ids :
              TabSubmitExpenseNew(t, creditorId, amount, newId, newId2)
        \/ \E creditorId \in Ids, productId \in {NoId} \cup Ids, quantity \in 0..1,
              amount \in 1..MaxAmt, newId \in Ids :
              TabSubmitCreditorTransactionNew(t, creditorId, productId, quantity,
                                              amount, newId)
        \/ TabGet(t)
        \/ TabSet(t)
        \/ TabSetThrows(t)
        \/ TabGetChildren(t)
        \/ TabSetChildren(t)

TabSpec == TabInit /\ [][TabNext]_vars

----------------------------------------------------------------------------
(* What the claims are stated with *)

RECURSIVE SumOver(_, _)
\* The sum of f[x] over the x in the finite set S, in no particular order.
SumOver(S, f) ==
    IF S = {} THEN 0
    ELSE LET x == CHOOSE y \in S : TRUE IN f[x] + SumOver(S \ {x}, f)

\* The amount a record adds to a sum: a record whose amount is null has none.
Number(x) == IF x = Null THEN 0 ELSE x

\* The arithmetic sum of amount over the records of `records` with Owns(record).
SumOfAmounts(records, Owns(_)) ==
    LET S == {i \in 1..Len(records) : Owns(records[i])}
    IN  SumOver(S, [i \in S |-> Number(records[i].amount)])

Max(a, b) == IF a >= b THEN a ELSE b

Abs(a) == IF a < 0 THEN 0 - a ELSE a

----------------------------------------------------------------------------
(* The claims *)

C2_TotalDebtIsSumOfPositive ==
    LET clients == getClients(storage)
        S == 1..Len(clients)
    IN  getTotalClientDebt(storage)
          = SumOver(S, [i \in S |-> Max(getClientBalance(storage, clients[i].id), 0)])

\* One client is in credit, another in debt, and the total is the debt alone.
C2_Witness ==
    \E c, d \in Ids :
        /\ c \in IdsOf(getClients(storage))
        /\ d \in IdsOf(getClients(storage))
        /\ getClientBalance(storage, c) < 0
        /\ getClientBalance(storage, d) > 0
        /\ getTotalClientDebt(storage) = getClientBalance(storage, d)

\* C3: after delete('clients', id) no client has that id and no transaction has
\* it as clientId; after delete('creditors', id) no creditor has that id and no
\* creditorTransaction has it as creditorId.  Stated of every reachable store
\* and every id.
C3_DeleteCascades ==
    \A id \in Ids :
        /\ LET s == delete(storage, "clients", id) IN
           /\ id \notin IdsOf(getClients(s))
           /\ getTransactionsForClient(s, id) = <<>>
        /\ LET s == delete(storage, "creditors", id) IN
           /\ id \notin IdsOf(getCreditors(s))
           /\ getTransactionsForCreditor(s, id) = <<>>

\* A client that had two transactions was just deleted.
C3_Witness ==
    /\ last.op = "deleteClient"
    /\ last.n = 2

\* The last record of an array.
Last(items) == items[Len(items)]

\* A new sale from inventory of `quantity` units, 1 <= quantity <= stock, of the
\* product the option names left that product with stock - quantity and created
\* exactly one record, a sale or a client transaction, of amount price * quantity.
SoldFromInventory(option, quantity) ==
    LET product == getProduct(storage, OptionId(storage, option))[1]
        after == getProduct(storage', product.id)
        created == IF Len(storage'["sales"]) > Len(storage["sales"])
                   THEN Last(storage'["sales"]) ELSE Last(storage'["transactions"])
    IN  /\ after # <<>>
        /\ after[1].quantity = product.quantity - quantity
        /\ Len(storage'["sales"]) + Len(storage'["transactions"])
             = Len(storage["sales"]) + Len(storage["transactions"]) + 1
        /\ Len(storage'["sales"]) >= Len(storage["sales"])
        /\ Len(storage'["transactions"]) >= Len(storage["transactions"])
        /\ \A type \in EntityType \ {"sales", "transactions"} :
              Len(storage'[type]) = Len(storage[type])
        /\ created.amount = product.price * quantity

\* The inputs of SubmitSaleNew.
SaleClients == {NoId} \cup Ids
SaleAmounts == Amounts \cup {NaN} \cup 1..(MaxPrice * MaxSaleQty)

\* C4: a new sale from inventory of q units, 1 <= q <= s, of a product with stock
\* s and price p sets its quantity to s - q and creates exactly one record, a
\* Sale or a client Transaction, whose amount is p * q.
C4_SaleFromInventory ==
    [][\A clientId \in SaleClients, option \in 1..MaxChildren,
          quantity \in 1..MaxSaleQty, amount \in SaleAmounts, newId \in Ids :
          ( /\ SubmitSaleNew(clientId, option, quantity, amount, newId)
            /\ quantity <= getProducts(storage)[option].quantity )
          => SoldFromInventory(option, quantity)]_vars

\* The same, of a product whose price is > 0.
C4_SaleFromInventoryPriced ==
    [][\A clientId \in SaleClients, option \in 1..MaxChildren,
          quantity \in 1..MaxSaleQty, amount \in SaleAmounts, newId \in Ids :
          ( /\ SubmitSaleNew(clientId, option, quantity, amount, newId)
            /\ quantity <= getProducts(storage)[option].quantity
            /\ getProducts(storage)[option].price > 0 )
          => SoldFromInventory(option, quantity)]_vars

\* The product the stock check of a sale reads for an option of the form.
Stocked(option) == getProduct(storage, OptionId(storage, option))[1]

\* C5: a new sale from inventory asking for more units than the product has in
\* stock is rejected with the insufficient-stock alert and writes nothing.
\* Stated of every reachable store, which holds the stock earlier sales left.
C5_InsufficientStockRejected ==
    \A clientId \in SaleClients, option \in 1..Len(getProducts(storage)),
       quantity \in 1..MaxSaleQty, amount \in SaleAmounts, newId \in Ids :
       ( /\ SaleInput(storage, clientId, option, quantity, amount)
         /\ quantity > Stocked(option).quantity )
       => LET submitted == submitSale(storage, clientId, option, quantity, amount, newId)
          IN  /\ submitted.alert
              /\ submitted.storage = storage

\* One unit of a product of price 0 was sold, and then a sale of two units of
\* it was rejected for the one unit that is left.  (The quantity field was set
\* to 2 while the other product, which has a price and two units, was selected.)
C5_Witness ==
    /\ last = Ran("saleRejected", 2)
    /\ Len(getSales(storage)) = 1
    /\ \E i, j \in 1..Len(getProducts(storage)) :
          /\ getProducts(storage)[i].price = 0
          /\ getProducts(storage)[i].quantity = 1
          /\ getProducts(storage)[j].price > 0
          /\ getProducts(storage)[j].quantity = 2
          /\ getProducts(storage)[j].id # getProducts(storage)[i].id

\* C6: a new Expense with amount a and creditorId k adds one record to expenses
\* and one CreditorTransaction of creditor k and amount -|a|, so the balance of k
\* drops by |a|; a new Expense without creditorId adds no CreditorTransaction.
C6_ExpenseCreatesPayment ==
    \A creditorId \in {NoId} \cup Ids, amount \in Amounts, newId \in Ids, newId2 \in Ids :
        LET s == submitExpense(storage, NoId, creditorId, amount, FALSE, newId, newId2)
            before == storage["creditorTransactions"]
            after == s["creditorTransactions"]
        IN  /\ Len(s["expenses"]) = Len(storage["expenses"]) + 1
            /\ Last(s["expenses"]).amount = amount
            /\ Last(s["expenses"]).creditorId = creditorId
            /\ \A type \in EntityType \ {"expenses", "creditorTransactions"} :
                  s[type] = storage[type]
            /\ IF creditorId = NoId THEN after = before
               ELSE /\ Len(after) = Len(before) + 1
                    /\ SubSeq(after, 1, Len(before)) = before
                    /\ Last(after).creditorId = creditorId
                    /\ Last(after).amount = 0 - Abs(amount)
                    /\ getCreditorBalance(s, creditorId)
                         = getCreditorBalance(storage, creditorId) - Abs(amount)

\* An expense of amount 1 was just created for a creditor, whose balance is -1.
C6_Witness ==
    /\ last = Ran("expenseNewCreditor", 1)
    /\ Len(getExpenses(storage)) = 1
    /\ Len(storage["creditorTransactions"]) = 1
    /\ getExpenses(storage)[1].creditorId \in IdsOf(getCreditors(storage))
    /\ getCreditorBalance(storage, getExpenses(storage)[1].creditorId) = 0 - 1

\* C7: editing an existing Expense, whatever creditorId and amount the edit
\* carries, leaves the creditorTransactions as they are.  Stated of every
\* reachable store, so of every edit in a row of edits.
C7_ExpenseEditAddsNoPayment ==
    \A id \in IdsOf(getExpenses(storage)), creditorId \in {NoId} \cup Ids,
       amount \in Amounts :
       submitExpense(storage, id, creditorId, amount, TRUE, NoId, NoId)["creditorTransactions"]
         = storage["creditorTransactions"]

\* An expense that had no creditor was just edited to carry one, and there is
\* no creditor transaction.
C7_Witness ==
    /\ last = Ran("expenseEditCreditor", NoId)
    /\ Len(getExpenses(storage)) = 1
    /\ getExpenses(storage)[1].creditorId # NoId
    /\ storage["creditorTransactions"] = <<>>

\* C8: creating a Transaction with a positive amount, for any client, never
\* decreases getTotalClientDebt().
C8_PositiveTransactionKeepsDebt ==
    \A clientId \in Ids, amount \in 1..MaxAmt, newId \in Ids :
        getTotalClientDebt(save(storage, "transactions",
                                Transaction(NoId, clientId, amount), newId))
          >= getTotalClientDebt(storage)

\* A positive transaction was just created for a client, and the total is > 0.
C8_Witness ==
    /\ last.op = "transactionNew"
    /\ last.n > 0
    /\ Last(storage["transactions"]).amount = last.n
    /\ getTotalClientDebt(storage) > 0

\* The store without the transactions of the clients whose balance is <= 0.
WithoutCredits(s) ==
    [s EXCEPT !["transactions"] =
        SelectSeq(s["transactions"], LAMBDA t : getClientBalance(s, t.clientId) > 0)]

\* C9: getTotalClientDebt() is what it would be with every transaction of a
\* client whose balance is <= 0 removed.
C9_CreditsDoNotCount ==
    getTotalClientDebt(storage) = getTotalClientDebt(WithoutCredits(storage))

\* A client in credit has a transaction, and another client is in debt.
C9_Witness ==
    /\ getTotalClientDebt(storage) > 0
    /\ WithoutCredits(storage) # storage
    /\ \E i \in 1..Len(getClients(storage)) :
          getClientBalance(storage, getClients(storage)[i].id) < 0

\* The records a form can hand to Store.save for a collection, with this id.
Items(type, id) ==
    CASE type \in {"clients", "creditors"} -> {[id |-> id]}
      [] type = "transactions" ->
            {Transaction(id, c, a) : c \in Ids, a \in Amounts}
      [] type = "sales" -> {Sale(id, a) : a \in Amounts}
      [] type = "expenses" ->
            {Expense(id, a, k) : a \in Amounts, k \in {NoId} \cup Ids}
      [] type = "products" -> {Product(id, p, q) : p \in Prices, q \in Stocks}
      [] type = "creditorTransactions" ->
            {CreditorTransaction(id, k, a) : k \in Ids, a \in Amounts}

\* C10: Store.save of a record without id appends it with a new id and leaves
\* the records before it as they are; Store.save of a record with the id of a
\* stored record replaces one record of that id where it is and leaves the
\* length and every other record as they are.  No other collection changes.
C10_SaveAppendsOrReplaces ==
    \A type \in EntityType, newId \in Ids :
        LET items == storage[type] IN
        /\ \A item \in Items(type, NoId) :
              LET s == save(storage, type, item, newId) IN
              /\ Len(s[type]) = Len(items) + 1
              /\ \A i \in 1..Len(items) : s[type][i] = items[i]
              /\ Last(s[type]) = [item EXCEPT !.id = newId]
              /\ \A other \in EntityType \ {type} : s[other] = storage[other]
        /\ \A id \in IdsOf(items) : \A item \in Items(type, id) :
              LET s == save(storage, type, item, newId) IN
              /\ Len(s[type]) = Len(items)
              /\ \E i \in 1..Len(items) :
                    /\ items[i].id = id
                    /\ s[type][i] = item
                    /\ \A j \in 1..Len(items) : j # i => s[type][j] = items[j]
              /\ \A other \in EntityType \ {type} : s[other] = storage[other]

\* The second of two transactions was just edited: it has the new amount at its
\* place, after the first, which has its own.
C10_Witness ==
    /\ last.op = "transactionEdit"
    /\ Len(storage["transactions"]) = 2
    /\ storage["transactions"][1].id # storage["transactions"][2].id
    /\ storage["transactions"][2].amount = last.n
    /\ storage["transactions"][1].amount # last.n

\* C11: whatever record Store.save is given, with no id, with the id of a stored
\* record or with an id no stored record has, the collection holds after the
\* call a record that has the returned id and equals the returned record.
C11_SaveReturnsPersisted ==
    \A type \in EntityType, id \in {NoId} \cup Ids, newId \in Ids :
        \A item \in Items(type, id) :
            LET returned == saveReturns(item, newId)
                items == save(storage, type, item, newId)[type]
            IN  \E i \in 1..Len(items) :
                    /\ items[i].id = returned.id
                    /\ items[i] = returned

\* The store shows the record `id` of `type` gone and a child of it present.
ParentGoneChildLeft(s, type, id) ==
    /\ id \notin IdsOf(s[type])
    /\ IF type = "clients"
       THEN \E i \in 1..Len(s["transactions"]) : s["transactions"][i].clientId = id
       ELSE \E i \in 1..Len(s["creditorTransactions"]) :
               s["creditorTransactions"][i].creditorId = id

\* C12: while a tab is in Store.delete of a client or creditor, whoever reads
\* the persisted collections never finds the parent gone and one of its
\* transactions present.
C12_CascadeIsAtomic ==
    \A t \in Tabs :
        LET tab == tabs[t] IN
        (tab.calls # <<>> /\ Head(tab.calls).fn = "delete"
                          /\ Head(tab.calls).type \in {"clients", "creditors"})
        => ~ParentGoneChildLeft(storage, Head(tab.calls).type, Head(tab.calls).id)

\* No tab is in a handler.
Quiet == \A t \in Tabs : tabs[t].pc = "idle"

\* C13: with a storage write that can fail, once the handler has ended the
\* store never shows half of a compound operation.  In the run of the compound
\* handlers every product is created with quantity 1, so: units that left the
\* stock are in a recorded sale, units that entered it are in a recorded
\* purchase, and every expense paid to a creditor has its payment recorded.
C13_CompoundIsAllOrNothing ==
    (scope = "compound" /\ Quiet) =>
        LET Purchase(x) == x.amount > 0
            purchases == SelectSeq(storage["creditorTransactions"], Purchase)
        IN  /\ \A i \in 1..Len(getProducts(storage)) :
                  /\ getProducts(storage)[i].quantity
                       >= 1 - reduceAmount(getSales(storage), 0)
                  /\ getProducts(storage)[i].quantity <= 1 + Len(purchases)
            /\ \A k \in Ids :
                  LET Paid(x) == x.creditorId = k
                      Payment(x) == x.creditorId = k /\ x.amount < 0
                  IN  Len(SelectSeq(getExpenses(storage), Paid))
                        <= Len(SelectSeq(storage["creditorTransactions"], Payment))

\* The quantities the "Cantidad Recibida" field can hold: empty, or a whole
\* number >= 0 with no maximum.
Received == {NaN} \cup 0..(MaxStock + 1)

\* C14: a new CreditorTransaction with the id of a stored product and a received
\* quantity r > 0 adds exactly r to that product's quantity, whatever the sum,
\* leaves every other product as it is and appends exactly one
\* CreditorTransaction; with no product or with r not > 0 the products are
\* unchanged and the CreditorTransaction is appended all the same.
C14_ReceiptAddsStock ==
    \A creditorId \in Ids, productId \in {NoId} \cup IdsOf(getProducts(storage)),
       quantity \in Received, amount \in Amounts, newId \in Ids :
        LET s == submitCreditorTransaction(storage, NoId, creditorId, productId,
                                           quantity, amount, FALSE, newId)
            products == getProducts(storage)
            before == storage["creditorTransactions"]
            after == s["creditorTransactions"]
        IN  /\ Len(after) = Len(before) + 1
            /\ SubSeq(after, 1, Len(before)) = before
            /\ Last(after) = CreditorTransaction(newId, creditorId, amount)
            /\ Len(getProducts(s)) = Len(products)
            /\ IF productId # NoId /\ quantity # NaN /\ quantity > 0
               THEN \E i \in 1..Len(products) :
                       /\ products[i].id = productId
                       /\ getProducts(s)[i] =
                            [products[i] EXCEPT !.quantity = products[i].quantity + quantity]
                       /\ \A j \in 1..Len(products) :
                             j # i => getProducts(s)[j] = products[j]
               ELSE getProducts(s) = products

\* A purchase that brought one unit of a product was just recorded: the stock
\* is at its bound, and the purchase is the creditor's only transaction.
C14_Witness ==
    /\ last.op = "creditorTransactionReceipt"
    /\ Len(storage["creditorTransactions"]) = 1
    /\ Len(getProducts(storage)) = 1
    /\ getProducts(storage)[1].quantity = MaxStock

\* A new sale that the form can submit over the stored records and that the
\* stock check lets through left exactly one new record, in `ledger`, and the
\* other ledger as it was.
RecordedIn(ledger, other, s) ==
    /\ Len(s[ledger]) = Len(storage[ledger]) + 1
    /\ SubSeq(s[ledger], 1, Len(storage[ledger])) = storage[ledger]
    /\ s[other] = storage[other]

\* C15, as claimed: a new sale with a client creates one Transaction of that
\* client and no Sale, and the client's balance rises by the amount of the sale
\* form; a new sale with no client creates one Sale and no Transaction.
C15_SaleInOneLedger ==
    \A clientId \in SaleClients, option \in SaleOptions(storage),
       quantity \in 1..MaxSaleQty, amount \in SaleAmounts \ {NaN}, newId \in Ids :
        LET submitted == submitSale(storage, clientId, option, quantity, amount, newId)
            s == submitted.storage
        IN  (SaleInput(storage, clientId, option, quantity, amount) /\ ~submitted.alert)
            => IF clientId # NoId
               THEN /\ RecordedIn("transactions", "sales", s)
                    /\ Last(s["transactions"]).clientId = clientId
                    /\ getClientBalance(s, clientId)
                         = getClientBalance(storage, clientId) + amount
               ELSE RecordedIn("sales", "transactions", s)

\* C15, amended: as claimed, but the balance rises by the absolute value of the
\* amount of the sale form, which is what the Transaction stores, and not at all
\* when the form was submitted with no amount (the Transaction stores null).
C15_SaleInOneLedgerAbs ==
    \A clientId \in SaleClients, option \in SaleOptions(storage),
       quantity \in 1..MaxSaleQty, amount \in SaleAmounts, newId \in Ids :
        LET submitted == submitSale(storage, clientId, option, quantity, amount, newId)
            s == submitted.storage
        IN  (SaleInput(storage, clientId, option, quantity, amount) /\ ~submitted.alert)
            => IF clientId # NoId
               THEN /\ RecordedIn("transactions", "sales", s)
                    /\ Last(s["transactions"]).clientId = clientId
                    /\ Last(s["transactions"]).amount =
                         (IF amount = NaN THEN Null ELSE Abs(amount))
                    /\ getClientBalance(s, clientId)
                         = getClientBalance(storage, clientId)
                           + (IF amount = NaN THEN 0 ELSE Abs(amount))
               ELSE /\ RecordedIn("sales", "transactions", s)
                    /\ Last(s["sales"]).amount = JsonNumber(amount)

\* A sale to a client was just recorded: the client has one transaction, of a
\* positive amount that is the client's balance, and no sale is stored.
C15_Witness ==
    /\ last.op \in {"saleManual", "saleInventory"}
    /\ getSales(storage) = <<>>
    /\ Len(storage["transactions"]) = 1
    /\ storage["transactions"][1].clientId \in IdsOf(getClients(storage))
    /\ storage["transactions"][1].amount # Null
    /\ storage["transactions"][1].amount > 0
    /\ getClientBalance(storage, storage["transactions"][1].clientId)
         = storage["transactions"][1].amount

\* C16: a manual new sale (no product selected) skips the stock check: whatever
\* the form submits and whatever the stock of any product, the submit listener
\* does not alert, and it leaves the products collection as it was.
C16_ManualSaleSkipsStockCheck ==
    \A clientId \in SaleClients, quantity \in {NaN} \cup 1..MaxSaleQty,
       amount \in SaleAmounts, newId \in Ids :
       SaleInput(storage, clientId, 0, quantity, amount)
       => LET submitted == submitSale(storage, clientId, 0, quantity, amount, newId)
          IN  /\ ~submitted.alert
              /\ getProducts(submitted.storage) = getProducts(storage)

\* A manual sale went through with 2 in the quantity field while a product has
\* fewer than 2 units in stock.
C16_Witness ==
    /\ last = Ran("saleManual", 2)
    /\ Len(getSales(storage)) + Len(get(storage, "transactions")) = 1
    /\ \E i \in 1..Len(getProducts(storage)) : getProducts(storage)[i].quantity < 2

\* Values of `type` that are none of the seven collections: at run time the
\* parameter is a string (handleDeleteClick passes on element.dataset.type).
OtherTypes == {"transaction", "other"}

\* C17: Store.delete(type, id) with a type that is none of the seven entity
\* collections is rejected: it writes nothing to localStorage.
C17_DeleteRejectsUnknownType ==
    \A type \in OtherTypes, id \in Ids : delete(storage, type, id) = storage

\* C18: ids are unique: in every reachable state no two records of the same
\* collection share an id.
C18_IdsUnique ==
    \A type \in EntityType :
        \A i, j \in 1..Len(get(storage, type)) :
            get(storage, type)[i].id = get(storage, type)[j].id => i = j

\* C19: referential integrity of the ledgers: every Transaction's clientId is
\* the id of a record in clients, and every CreditorTransaction's creditorId is
\* the id of a record in creditors.
C19_NoOrphanTransaction ==
    /\ \A i \in 1..Len(get(storage, "transactions")) :
          get(storage, "transactions")[i].clientId \in IdsOf(getClients(storage))
    /\ \A i \in 1..Len(get(storage, "creditorTransactions")) :
          get(storage, "creditorTransactions")[i].creditorId
              \in IdsOf(getCreditors(storage))

\* C20: two writers, no compare-and-swap.  The set of a save of a new record
\* persists the array the tab read at its get, with the new record appended:
\* whatever the other tab has stored under the key since that get is replaced.
C20_SetPersistsStaleRead ==
    [][\A t \in Tabs :
          LET call == Head(tabs[t].calls) IN
          (TabSet(t) /\ call.fn = "save" /\ call.item.id = NoId)
          => get(storage', call.type)
             = get(set(storage, call.type,
                       Append(tabs[t].items, saveReturns(call.item, call.newId))),
                   call.type)]_vars

\* Both tabs are idle, no setItem has thrown, and a record for which Store.save
\* returned in one tab is not in its collection, in a run that deletes nothing:
\* the other tab's set has replaced it.
C20_Witness ==
    /\ scope = "writers"
    /\ Quiet
    /\ last.op # "threw"
    /\ \E t \in Tabs : \E e \in tabs[t].saved :
          /\ e[2] \notin IdsOf(get(storage, e[1]))
          /\ tabs[3 - t].saved # {}

\* The collections Store.delete(type, id) may change.
DeleteTouches(type) ==
    {type} \cup (IF type = "clients" THEN {"transactions"}
                 ELSE IF type = "creditors" THEN {"creditorTransactions"} ELSE {})

\* C21: Store.delete(type, id) changes only the collection of the type and,
\* for a client or a creditor, the collection of its children; there it removes
\* only the records with that id and the children that reference it, in place.
\* So a deleted creditor leaves every expense as it was, a deleted expense
\* leaves every creditor transaction as it was, and deleting an id that is in
\* no record changes nothing.
C21_DeleteFrame ==
    \A type \in EntityType, id \in Ids :
        LET deleted == delete(storage, type, id)
            NotId(item) == item.id # id
            NotClient(x) == x.clientId # id
            NotCreditor(x) == x.creditorId # id
        IN  /\ \A other \in EntityType \ DeleteTouches(type) :
                  get(deleted, other) = get(storage, other)
            /\ get(deleted, type) = SelectSeq(get(storage, type), NotId)
            /\ type = "clients"
                  => get(deleted, "transactions")
                     = SelectSeq(get(storage, "transactions"), NotClient)
            /\ type = "creditors"
                  => get(deleted, "creditorTransactions")
                     = SelectSeq(get(storage, "creditorTransactions"), NotCreditor)
            /\ ( /\ id \notin IdsOf(get(storage, type))
                 /\ type = "clients"
                       => getTransactionsForClient(storage, id) = <<>>
                 /\ type = "creditors"
                       => getTransactionsForCreditor(storage, id) = <<>> )
                  => deleted = storage

\* A creditor was deleted and an expense that was paid to it is still there,
\* with the creditorId of no creditor.
C21_Witness ==
    /\ last.op = "deleteCreditor"
    /\ \E i \in 1..Len(getExpenses(storage)) :
          /\ getExpenses(storage)[i].creditorId # NoId
          /\ getExpenses(storage)[i].creditorId \notin IdsOf(getCreditors(storage))

\* C22: editing or deleting a sale, a transaction or a creditor transaction
\* leaves the products as they are: whatever the edit form submits for a stored
\* record, and whichever record is deleted.
C22_EditAndDeleteKeepStock ==
    /\ \A id \in IdsOf(getSales(storage)), amount \in SaleAmounts :
          getProducts(save(storage, "sales", Sale(id, amount), NoId))
              = getProducts(storage)
    /\ \A id \in IdsOf(get(storage, "transactions")), clientId \in SaleClients,
          amount \in Amounts \cup {NaN} :
          getProducts(save(storage, "transactions",
                           Transaction(id, clientId, amount), NoId))
              = getProducts(storage)
    /\ \A id \in IdsOf(get(storage, "creditorTransactions")),
          creditorId \in {NoId} \cup Ids, amount \in Amounts \cup {NaN} :
          getProducts(submitCreditorTransaction(storage, id, creditorId, NoId, NaN,
                                                amount, TRUE, NoId))
              = getProducts(storage)
    /\ \A type \in {"sales", "transactions", "creditorTransactions"}, id \in Ids :
          getProducts(delete(storage, type, id)) = getProducts(storage)

\* On the sales page a sale was deleted, no sale is left, and a product is
\* still out of stock.
C22_Witness ==
    /\ last = Ran("delete", 0)
    /\ View = "sales"
    /\ getSales(storage) = <<>>
    /\ \E i \in 1..Len(getProducts(storage)) :
          /\ getProducts(storage)[i].quantity = 0
          /\ getProducts(storage)[i].price > 0

\* No product of the store s has a quantity below 0.
StockNotNegative(s) ==
    \A i \in 1..Len(getProducts(s)) : getProducts(s)[i].quantity >= 0

\* C23: stock never goes negative through sales.  No stored product has a
\* quantity < 0, and from any reachable store neither the stock step of a sale
\* of a stored product with a quantity >= 1 (whether or not the form's own
\* validation would let it through), accepted or rejected, nor a creditor
\* receipt leaves a product with a quantity < 0.
C23_StockNeverNegative ==
    /\ StockNotNegative(storage)
    /\ \A productId \in IdsOf(getProducts(storage)), quantity \in 1..(MaxSaleQty + 1) :
          LET checked == SaleStockCheck(storage, productId, quantity) IN
          checked # <<>> => StockNotNegative(checked[1])
    /\ \A clientId \in SaleClients, option \in 0..MaxChildren,
          quantity \in 1..MaxSaleQty, amount \in SaleAmounts, newId \in Ids :
          SaleInput(storage, clientId, option, quantity, amount)
          => StockNotNegative(submitSale(storage, clientId, option, quantity,
                                         amount, newId).storage)
    /\ \A creditorId \in Ids, productId \in {NoId} \cup IdsOf(getProducts(storage)),
          quantity \in Received, amount \in Amounts, newId \in Ids :
          StockNotNegative(submitCreditorTransaction(storage, NoId, creditorId,
                                                     productId, quantity, amount,
                                                     FALSE, newId))

\* A sale of two units took a product's stock to 0.
C23_Witness ==
    /\ last = Ran("saleInventory", 2)
    /\ \E i \in 1..Len(getProducts(storage)) : getProducts(storage)[i].quantity = 0

\* C24: the two detail selections are mutually exclusive: currentClientId and
\* currentCreditorId are never both set, and a step that changes the page (a
\* click on the nav button of another page, or a load) leaves both null.
C24_SelectionsExclusive ==
    /\ [](currentClientId = NoId \/ currentCreditorId = NoId)
    /\ [][currentPage' # currentPage
            => currentClientId' = NoId /\ currentCreditorId' = NoId]_vars

\* A creditor is selected on the creditors page while a client is stored: the
\* page was left for another one since the client was created.
C24_Witness ==
    /\ currentPage = "creditors"
    /\ currentCreditorId # NoId
    /\ currentClientId = NoId
    /\ getClients(storage) # <<>>

\* C25: once render() has returned, currentClientId is null or the id of a
\* stored client and currentCreditorId is null or the id of a stored creditor;
\* and deleting the client or creditor of the detail page that is shown ends
\* with no selection, on the list page.
C25_SelectionExists ==
    /\ currentClientId \in {NoId} \cup IdsOf(getClients(storage))
    /\ currentCreditorId \in {NoId} \cup IdsOf(getCreditors(storage))
    /\ currentClientId # NoId
          => render(delete(storage, "clients", currentClientId),
                    currentClientId, currentCreditorId)
             = [clientId |-> NoId, creditorId |-> NoId]
    /\ (currentClientId = NoId /\ currentCreditorId # NoId)
          => render(delete(storage, "creditors", currentCreditorId),
                    currentClientId, currentCreditorId)
             = [clientId |-> NoId, creditorId |-> NoId]

\* The client of the detail page was deleted with its transaction: the clients
\* list is shown, with another client on it.
C25_Witness ==
    /\ last = Ran("deleteClient", 1)
    /\ View = "clients"
    /\ getClients(storage) # <<>>

\* C26: the service worker is cache-first.  For the fetch event under way, once
\* caches.match has answered: what it answered is what the caches hold for the
\* request, also after the response is there (the network's response is added
\* to no cache); with a match the response is the cached one and the network
\* was not contacted; the network is contacted only with no match, and then
\* the response is the network's (or its error).  No step of the active worker
\* changes a cache.
C26_CacheFirst ==
    /\ [](LET fetch == worker.fetch IN
          /\ fetch.pc \in {"network", "done"}
                => fetch.matched = match(caches, fetch.url)
          /\ (fetch.pc = "done" /\ fetch.matched # NoResponse)
                => fetch.response = fetch.matched /\ ~fetch.contacted
          /\ fetch.contacted => fetch.matched = NoResponse
          /\ (fetch.pc = "done" /\ fetch.matched = NoResponse)
                => fetch.contacted /\ fetch.response.from \in {"network", "error"})
    /\ [][worker.phase = "activated" => caches' = caches]_vars

\* A fetch event was answered from the cache.
C26_Witness ==
    /\ worker.fetch.pc = "done"
    /\ worker.fetch.response = Response("cache", CACHE_NAME, "/index.html")

\* C27: once the promise of the activate event's waitUntil is fulfilled, no
\* cache with a name other than CACHE_NAME is left, and the cache CACHE_NAME is
\* there, with what the install put in it.
C27_ActivateCleansUp ==
    worker.phase = "activated"
    => /\ Range(keys(caches)) = {CACHE_NAME}
       /\ \A i \in 1..Len(caches) : urlsToCache \subseteq caches[i].urls

\* The worker is active, and caches.keys() had named two old caches and
\* CACHE_NAME.
C27_Witness ==
    /\ worker.phase = "activated"
    /\ Len(worker.keys) = 3
    /\ worker.pending = {}

====
